---- MODULE Spec2Model ----
(***************************************************************************)
(* State-machine model of the webgl-showcase runtime core.                 *)
(*                                                                         *)
(* Spec        DemoCanvas: the load effect, initDemo, renderLoop and the   *)
(*             effect cleanup, driven by playgroundReducer and loadDemo.   *)
(*             The effect re-runs whenever one of its dependencies         *)
(*             [state.activeDemoId, handleResize, renderLoop] changes      *)
(*             identity, i.e. whenever activeDemoId, quality, isPaused or  *)
(*             reduceMotion changes.  A re-run is the cleanup of the       *)
(*             previous effect followed by the body of the new one.        *)
(*             init() may resolve later than it was called (the            *)
(*             DemoInstance interface allows a Promise).  handleResize and *)
(*             the ResizeObserver keep the canvas backing store and        *)
(*             sizeRef; `calls` lists the DemoInstance methods the last    *)
(*             step invoked, in order.                                     *)
(* SpecCanvas  the same DemoCanvas under quality changes and container     *)
(*             resizes only.                                               *)
(* SpecStats   one StatsTracker and the timer query it drives.             *)
(* SpecParams  setParameter, reset and getParameters of NebulaDemo and     *)
(*             PingPongDemo.                                               *)
(* SpecShader  createShader / createProgram on a WebGL2 context.           *)
(* SpecPortal  one PortalRTTDemo instance and the GPU objects it owns.     *)
(* SpecBuf     the double buffers of PingPongDemo and GPUParticlesDemo.    *)
(***************************************************************************)
EXTENDS Integers, Sequences, FiniteSets, TLC

\* ------------------------------------------------------------------ bounds
MaxEffects == 2
MaxFrames == 1
MaxCalls == 3
MaxSwaps == 5
MaxStatFrames == 3
MaxDraws == 2

\* --------------------------------------------------------------- constants
DemoIds == {"nebula", "voronoi"}
QualityLevels == {"low", "high"}
Effects == 1..MaxEffects
\* container rectangles (CSS pixels) and window.devicePixelRatio values, the
\* latter in hundredths; frame intervals in milliseconds
Rects == {<<0, 0>>, <<300, 150>>, <<600, 300>>}
DevicePixelRatios == {50, 200}
Intervals == {16, 5000}

VARIABLES
  pstate,        \* PlaygroundState fields the canvas depends on
  mounted,       \* "no" (before mount), "yes", "gone" (after unmount)
  epoch,         \* index of the effect run that is current (0: none yet)
  eff,           \* per effect run: position of initDemo, its `cancelled` flag,
                 \*   the state captured by its closures
  inst,          \* per effect run: the DemoInstance its initDemo constructs
  demoRef,       \* demoRef.current: 0 (null) or the index of an instance
  rafPending,    \* requestAnimationFrame callbacks waiting for the next frame
  rafRef,        \* rafRef.current: id returned by the last requestAnimationFrame
  rafNext,       \* next id requestAnimationFrame hands out
  frameQueue,    \* callbacks of the frame being run that have not run yet
  frameRendered, \* instances that had render() invoked in the current frame
  frameNo,       \* number of animation frames started
  prevActive,    \* per effect run: demoRef.current when the request was made
  container,     \* containerRef.current.getBoundingClientRect(): <<width, height>>
  devicePixelRatio, \* window.devicePixelRatio, in hundredths
  canvas,        \* canvas.width, canvas.height (the backing store)
  sizeRef,       \* sizeRef.current; dpr in hundredths
  roReported,    \* size the current ResizeObserver last reported
  elapsed,       \* performance.now() - lastTimeRef.current, in milliseconds
  sinceStart,    \* performance.now() - startTimeRef.current, in milliseconds
  calls          \* DemoInstance methods invoked by the last step, in order

VARIABLES
  shLive,        \* shader and program objects created and not yet deleted
  shCalls,       \* number of createProgram calls made
  shLast         \* the last createProgram call: what it created, how it ended

VARIABLES
  glLive,        \* GPU objects created by the portal instance, not yet deleted
  glStore,       \* storage size of the render target's texture and depth buffer
  glViewport,    \* the viewport set by the last gl.viewport call
  scenePass,     \* Portal: the draw into the render target of the last render
  portal,        \* fields of the PortalRTTDemo instance and its lifecycle state
  portalCall     \* the method of the portal instance called last, with its size

VARIABLES
  pp,            \* fields of the PingPongDemo instance
  ppSwaps,       \* index flips since the last initFBOs
  ppSteps,       \* simulation steps of the last render: what was read, written
  ppDisplay,     \* display pass of the last render: texture sampled, passes before it
  gp,            \* fields of the GPUParticlesDemo instance
  gpSwaps,       \* index flips since init
  gpStep         \* update pass of the last render: what was read, written, drawn

VARIABLES
  stats,         \* fields of the StatsTracker and its lifecycle state
  query,         \* the WebGLQuery: active (begun, not ended) and its result
  disjoint,      \* GPU_DISJOINT_EXT: set by a GPU reset, cleared when read
  statsOut,      \* the value the last getStats() returned
  statsFrames    \* number of beginFrame calls made

VARIABLES
  nebula,        \* parameter fields of the NebulaDemo instance
  paramCall      \* the parameter method called last, on which demo, with its key

loaderVars == <<pstate, mounted, epoch, eff, inst, demoRef, rafPending, rafRef,
                rafNext, frameQueue, frameRendered, frameNo, prevActive,
                container, devicePixelRatio, canvas, sizeRef, roReported,
                elapsed, sinceStart, calls>>
shaderVars == <<shLive, shCalls, shLast>>
portalVars == <<glLive, glStore, glViewport, scenePass, portal, portalCall>>
bufVars == <<pp, ppSwaps, ppSteps, ppDisplay, gp, gpSwaps, gpStep>>
statsVars == <<stats, query, disjoint, statsOut, statsFrames>>
paramVars == <<nebula, paramCall>>

vars == <<pstate, mounted, epoch, eff, inst, demoRef, rafPending, rafRef,
          rafNext, frameQueue, frameRendered, frameNo, prevActive,
          container, devicePixelRatio, canvas, sizeRef, roReported, elapsed,
          sinceStart,
          calls,
          shLive, shCalls, shLast, glLive, glStore, glViewport, scenePass, portal,
          portalCall,
          pp, ppSwaps, ppSteps, ppDisplay, gp, gpSwaps, gpStep,
          stats, query, disjoint, statsOut, statsFrames, nebula, paramCall>>

\* ------------------------------------------------------ playgroundReducer
initialState ==
  [activeDemoId |-> "nebula", isPaused |-> FALSE, quality |-> "high",
   reduceMotion |-> FALSE]

playgroundReducer(state, action) ==
  CASE action.type = "SET_ACTIVE_DEMO" -> [state EXCEPT !.activeDemoId = action.demoId]
    [] action.type = "TOGGLE_PAUSE" -> [state EXCEPT !.isPaused = ~state.isPaused]
    [] action.type = "SET_PAUSED" -> [state EXCEPT !.isPaused = action.isPaused]
    [] action.type = "SET_QUALITY" -> [state EXCEPT !.quality = action.quality]
    [] action.type = "TOGGLE_REDUCE_MOTION" -> [state EXCEPT !.reduceMotion = ~state.reduceMotion]
    [] OTHER -> state

\* ---------------------------------------------------------------- helpers
NoEffect == [pc |-> "idle", cancelled |-> FALSE, state |-> initialState,
             supersededEarly |-> FALSE]
NoInstance == [built |-> FALSE, init |-> "none", destroys |-> 0, renders |-> 0,
               attached |-> FALSE, demoId |-> "nebula", threw |-> FALSE,
               params |-> "default"]

\* faulty variant: the cleanup leaves the pending callback in place
cancelAnimationFrameNoop(pending, id) == pending

\* cancelAnimationFrame(id): the callback with that id will not run
cancelAnimationFrame(pending, id) == {c \in pending : c.id # id}

\* demo.destroy() on instance i (i = 0: demoRef.current is null, nothing called)
destroyInstance(ins, i) ==
  IF i = 0 THEN ins ELSE [ins EXCEPT ![i].destroys = @ + 1]

\* `if (cancelled || !entry || !glRef.current) return;` after the module load
DiscardAfterLoad(cancelled, entry) == cancelled \/ ~entry

\* faulty variant: no stale check after init()
DiscardAfterInitNever(cancelled) == FALSE

\* `if (cancelled) { demo.destroy(); return; }` after init() resolved
DiscardAfterInit(cancelled) == cancelled

\* an instance of PortalRTTDemo that has not been constructed
NoPortal ==
  [st |-> "none", sceneProgram |-> FALSE, postProgram |-> FALSE,
   icosahedronMesh |-> FALSE, torusMesh |-> FALSE, quadVao |-> FALSE,
   quadBuffer |-> FALSE, fbo |-> FALSE, fboWidth |-> 0, fboHeight |-> 0,
   fboSize |-> 512, gpuQuery |-> FALSE]

\* a PingPongDemo as its constructor leaves it
NewPingPong ==
  [ready |-> FALSE, currentFbo |-> 0, fbo1 |-> 0, fbo2 |-> 0, live |-> {},
   simulation |-> "reaction-diffusion", speed |-> 100, shouldReset |-> FALSE]

\* the parameters of a NebulaDemo as its field initialisers leave them (speed
\* and mouseInfluence in hundredths)
NewNebula ==
  [speed |-> 100, complexity |-> 5, mouseInfluence |-> 15, grain |-> TRUE,
   palette |-> 0]

\* a GPUParticlesDemo as its constructor leaves it
NewParticles ==
  [ready |-> FALSE, currentBuffer |-> 0, buffers |-> <<>>, live |-> {},
   capacity |-> <<>>, particleCount |-> 50000, currentQuality |-> "high",
   updateVaos |-> <<>>, renderVaos |-> <<>>, liveVaos |-> {},
   vaoBuffer |-> <<>>, deleted |-> [buffers |-> {}, vaos |-> {}]]

\* a StatsTracker that has not been constructed; gpuTime in nanoseconds
NoStats ==
  [st |-> "none", timerExt |-> FALSE, gpuQuery |-> FALSE,
   queryInProgress |-> FALSE, gpuTime |-> 0, drawCalls |-> 0, triangles |-> 0,
   instances |-> 0, particles |-> 0]

\* ------------------------------------------------------------------- Init
Init ==
  /\ nebula = NewNebula
  /\ paramCall = [demo |-> "none", op |-> "none", key |-> "", n |-> 0]
  /\ stats = NoStats
  /\ query = [active |-> FALSE, result |-> "idle", error |-> FALSE,
              lastBegin |-> "none", readback |-> "none"]
  /\ disjoint = FALSE
  /\ statsOut = <<>>
  /\ statsFrames = 0
  /\ pp = NewPingPong
  /\ ppSwaps = 0
  /\ ppSteps = <<>>
  /\ ppDisplay = [read |-> 0, after |-> 0, simulation |-> "reaction-diffusion"]
  /\ gp = NewParticles
  /\ gpSwaps = 0
  /\ gpStep = [read |-> 0, write |-> 0, drawn |-> 0, before |-> 0, after |-> 0]
  /\ shLive = {}
  /\ shCalls = 0
  /\ shLast = [threw |-> FALSE, created |-> {}, program |-> <<>>]
  /\ glLive = {}
  /\ glStore = [tex |-> 0, depth |-> 0]
  /\ glViewport = <<0, 0>>
  /\ scenePass = [drawn |-> FALSE, viewport |-> <<0, 0>>, tex |-> 0, depth |-> 0,
                  width |-> 0, height |-> 0]
  /\ portal = NoPortal
  /\ portalCall = [op |-> "none", width |-> 0, height |-> 0]
  /\ pstate = initialState
  /\ mounted = "no"
  /\ epoch = 0
  /\ eff = [e \in Effects |-> NoEffect]
  /\ inst = [e \in Effects |-> NoInstance]
  /\ demoRef = 0
  /\ rafPending = {}
  /\ rafRef = 0
  /\ rafNext = 1
  /\ frameQueue = {}
  /\ frameRendered = {}
  /\ frameNo = 0
  /\ prevActive = [e \in Effects |-> 0]
  /\ container = <<0, 0>>
  /\ devicePixelRatio = 100
  /\ canvas = [width |-> 300, height |-> 150]
  /\ sizeRef = [width |-> 0, height |-> 0, dpr |-> 100]
  /\ roReported = <<0, 0>>
  /\ elapsed = 0
  /\ sinceStart = 0
  /\ calls = <<>>

\* ------------------------------------------------------------ handleResize
Max2(a, b) == IF a >= b THEN a ELSE b
Min2(a, b) == IF a <= b THEN a ELSE b
Abs(a) == IF a >= 0 THEN a ELSE 0 - a

\* QUALITY_PRESETS[q].resolution, in hundredths ("ultra" reads the window)
resolution == [low |-> 50, medium |-> 75, high |-> 100]

getResolutionMultiplier(quality, windowDpr) ==
  IF quality = "ultra" THEN windowDpr ELSE resolution[quality]

\* the size handleResize computes for the container rectangle `rect`
resizeTarget(rect, quality, windowDpr) ==
  LET dpr == Min2(getResolutionMultiplier(quality, windowDpr), windowDpr)
  IN [width |-> (rect[1] * dpr) \div 100,
      height |-> (rect[2] * dpr) \div 100,
      dpr |-> dpr]

\* faulty variant: the canvas is rewritten and resize() is called whether or
\* not the computed size differs from the canvas's
handleResizeUnguarded(cv, sr, rect, quality, windowDpr, ref) ==
  LET t == resizeTarget(rect, quality, windowDpr)
  IN [canvas |-> [width |-> t.width, height |-> t.height],
      sizeRef |-> t,
      calls |-> IF ref = 0 THEN <<>>
                ELSE <<[op |-> "resize", on |-> ref, arg |-> t]>>]

\* handleResize() of the closure that captured `quality`, with demoRef.current
\* = ref: the new canvas size, the new sizeRef.current and the resize() call
\* made, if any.
handleResize(cv, sr, rect, quality, windowDpr, ref) ==
  LET t == resizeTarget(rect, quality, windowDpr)
  IN IF cv.width # t.width \/ cv.height # t.height
       THEN [canvas |-> [width |-> t.width, height |-> t.height],
             sizeRef |-> t,
             calls |-> IF ref = 0 THEN <<>>
                       ELSE <<[op |-> "resize", on |-> ref, arg |-> t]>>]
       ELSE [canvas |-> cv, sizeRef |-> sr, calls |-> <<>>]

\* faulty variant: the raw interval is passed on
clampDeltaNone(deltaTime) == deltaTime

\* `deltaTime: Math.min(deltaTime, 0.1)`, in milliseconds
clampDelta(deltaTime) == Min2(deltaTime, 100)

\* faulty variant: the cleanup destroys the instance but keeps the reference
clearedRefKept(ref) == ref

\* `demoRef.current = null` in the effect cleanup
clearedRef(ref) == 0

\* faulty variant: a rejected init() is not noticed
CaughtNever(ok) == FALSE

\* `try { ... await demo.init(); ... } catch (err)`: control reaches the catch
\* block when init() threw or rejected
Caught(ok) == ~ok

\* faulty variant: render is invoked whatever the pause flag
ShouldRenderAlways(isPaused) == TRUE

\* `if (!state.isPaused)` in renderLoop
ShouldRender(isPaused) == ~isPaused

\* faulty variant: the start time of the previous instance is kept
restartedTimeKept(t) == t

\* `startTimeRef.current = performance.now()` when an instance is attached:
\* the time since the start is 0 again
restartedTime(t) == 0

\* faulty variant: the next tick is requested even when render() threw
RescheduleAlways(threw) == TRUE

\* `rafRef.current = requestAnimationFrame(renderLoop)` is the last statement
\* of renderLoop: it is reached unless render() threw
Reschedule(threw) == ~threw

\* the method calls destroyInstance(ins, i) stands for
destroyCalls(i) ==
  IF i = 0 THEN <<>> ELSE <<[op |-> "destroy", on |-> i, arg |-> [none |-> TRUE]]>>

\* ------------------------------------------------------------ load effect
\* The cleanup function returned by the effect of run `e`, followed by the
\* body of the effect for run e+1 with the new state `s`: getContext, then the
\* synchronous prefix of initDemo up to `await loadDemo(...)`.  When the
\* quality changed (and on mount) the ResizeObserver effect runs as well: the
\* old observer is disconnected and a new one observes the container.
RunEffect(s) ==
  LET e == epoch
      n == epoch + 1
      \* cleanup of run e (absent on mount)
      effC == IF e = 0 THEN eff
              ELSE [eff EXCEPT ![e].cancelled = TRUE,
                               ![e].supersededEarly = eff[e].pc \in {"loading", "initing"}]
      pendC == IF e = 0 THEN rafPending ELSE cancelAnimationFrame(rafPending, rafRef)
      queueC == IF e = 0 THEN frameQueue ELSE cancelAnimationFrame(frameQueue, rafRef)
      instC == IF e = 0 THEN inst ELSE destroyInstance(inst, demoRef)
      refC == IF e = 0 THEN demoRef ELSE clearedRef(demoRef)
      \* initDemo of run n: "Clean up previous demo"
      instD == destroyInstance(instC, refC)
  IN /\ n \in Effects
     /\ pstate' = s
     /\ epoch' = n
     /\ prevActive' = [prevActive EXCEPT ![n] = demoRef]
     /\ eff' = [effC EXCEPT ![n] = [pc |-> "loading", cancelled |-> FALSE,
                                    state |-> s, supersededEarly |-> FALSE]]
     /\ inst' = [instD EXCEPT ![n].demoId = s.activeDemoId]
     /\ demoRef' = 0
     /\ rafPending' = pendC
     /\ frameQueue' = queueC
     /\ calls' = (IF e = 0 THEN <<>> ELSE destroyCalls(demoRef)) \o destroyCalls(refC)
     /\ roReported' = IF e = 0 \/ s.quality # pstate.quality
                        THEN <<0, 0>> ELSE roReported
     /\ UNCHANGED <<rafRef, rafNext, frameRendered, frameNo, canvas, sizeRef,
                    elapsed,
                    sinceStart>>
     /\ UNCHANGED <<shaderVars, portalVars, bufVars, statsVars, paramVars>>

\* First render of DemoCanvas in a window with one of the given container
\* rectangles and device pixel ratios: the effects run for the initial state.
MountIn(rects, ratios) ==
  /\ mounted = "no"
  /\ mounted' = "yes"
  /\ container' \in rects
  /\ devicePixelRatio' \in ratios
  /\ RunEffect(pstate)

\* any window
Mount == MountIn(Rects, DevicePixelRatios)

\* a window with a laid-out container on a high-density display
MountHiDpi == MountIn(Rects \ {<<0, 0>>}, {200})

\* A dispatch handled while no animation-frame callback is running.
Dispatch(action) ==
  /\ mounted = "yes"
  /\ frameQueue = {}
  /\ playgroundReducer(pstate, action) # pstate
  /\ RunEffect(playgroundReducer(pstate, action))
  /\ UNCHANGED <<mounted, container, devicePixelRatio>>

SetActiveDemo == \E d \in DemoIds : Dispatch([type |-> "SET_ACTIVE_DEMO", demoId |-> d])
TogglePause == Dispatch([type |-> "TOGGLE_PAUSE"])
SetQuality == \E q \in QualityLevels : Dispatch([type |-> "SET_QUALITY", quality |-> q])
ToggleReduceMotion == Dispatch([type |-> "TOGGLE_REDUCE_MOTION"])

\* `await loadDemo(id)` settles for run e: entry, or null when the id is
\* unknown or the dynamic import rejected.
LoadSettles(e, entry) ==
  /\ eff[e].pc = "loading"
  /\ IF DiscardAfterLoad(eff[e].cancelled, entry)
       THEN /\ eff' = [eff EXCEPT ![e].pc = "done"]
            /\ calls' = <<>>
            /\ UNCHANGED inst
       ELSE \* entry.factory(gl); demo.init() called, promise pending
            /\ eff' = [eff EXCEPT ![e].pc = "initing"]
            /\ inst' = [inst EXCEPT ![e].built = TRUE, ![e].init = "pending"]
            /\ calls' = <<[op |-> "init", on |-> e, arg |-> [none |-> TRUE]]>>
  /\ UNCHANGED <<pstate, mounted, epoch, demoRef, rafPending, rafRef, rafNext,
                 frameQueue, frameRendered, frameNo, prevActive, container,
                 devicePixelRatio, canvas, sizeRef, roReported, elapsed,
                 sinceStart>>
  /\ UNCHANGED <<shaderVars, portalVars, bufVars, statsVars, paramVars>>

\* `await demo.init()` settles for run e: resolved (ok) or rejected.
InitSettles(e, ok) ==
  /\ eff[e].pc = "initing"
  /\ eff' = [eff EXCEPT ![e].pc = "done"]
  /\ IF Caught(ok)
       THEN \* catch (err) { console.error(...) }
            /\ inst' = [inst EXCEPT ![e].init = "failed"]
            /\ calls' = <<>>
            /\ UNCHANGED <<demoRef, rafPending, rafRef, rafNext, canvas, sizeRef,
                           elapsed,
                           sinceStart>>
       ELSE IF DiscardAfterInit(eff[e].cancelled)
         THEN /\ inst' = destroyInstance(
                          [inst EXCEPT ![e].init = IF ok THEN "ok" ELSE "failed"], e)
              /\ calls' = destroyCalls(e)
              /\ UNCHANGED <<demoRef, rafPending, rafRef, rafNext, canvas,
                             sizeRef, elapsed,
                             sinceStart>>
         ELSE \* demoRef.current = demo; startTimeRef, lastTimeRef = now;
              \* handleResize(); requestAnimationFrame(renderLoop)
              LET r == handleResize(canvas, sizeRef, container,
                                    eff[e].state.quality, devicePixelRatio, e)
              IN /\ inst' = [inst EXCEPT ![e].init = IF ok THEN "ok" ELSE "failed",
                                          ![e].attached = TRUE]
                 /\ demoRef' = e
                 /\ elapsed' = 0
                 /\ sinceStart' = restartedTime(sinceStart)
                 /\ canvas' = r.canvas
                 /\ sizeRef' = r.sizeRef
                 /\ calls' = r.calls
                 /\ rafPending' = rafPending \cup {[id |-> rafNext, eff |-> e]}
                 /\ rafRef' = rafNext
                 /\ rafNext' = rafNext + 1
  /\ UNCHANGED <<pstate, mounted, epoch, frameQueue, frameRendered, frameNo,
                 prevActive, container, devicePixelRatio, roReported>>
  /\ UNCHANGED <<shaderVars, portalVars, bufVars, statsVars, paramVars>>

\* ------------------------------------------------------- resize observer
\* The layout gives the container a new rectangle (the observer has
\* reported the previous one).
ContainerResize(rect) ==
  /\ mounted = "yes"
  /\ frameQueue = {}
  /\ rect # container
  /\ roReported = container
  /\ container' = rect
  /\ calls' = <<>>
  /\ UNCHANGED <<pstate, mounted, epoch, eff, inst, demoRef, rafPending, rafRef,
                 rafNext, frameQueue, frameRendered, frameNo, prevActive,
                 devicePixelRatio, canvas, sizeRef, roReported, elapsed,
                 sinceStart>>
  /\ UNCHANGED <<shaderVars, portalVars, bufVars, statsVars, paramVars>>

\* The ResizeObserver delivers a notification (the container's size differs
\* from the one it last reported; a new observer has reported 0 x 0): the
\* current handleResize runs.
ResizeObserved ==
  /\ mounted = "yes"
  /\ frameQueue = {}
  /\ container # roReported
  /\ roReported' = container
  /\ LET r == handleResize(canvas, sizeRef, container, pstate.quality,
                           devicePixelRatio, demoRef)
     IN /\ canvas' = r.canvas
        /\ sizeRef' = r.sizeRef
        /\ calls' = r.calls
  /\ UNCHANGED <<pstate, mounted, epoch, eff, inst, demoRef, rafPending, rafRef,
                 rafNext, frameQueue, frameRendered, frameNo, prevActive,
                 container, devicePixelRatio, elapsed,
                 sinceStart>>
  /\ UNCHANGED <<shaderVars, portalVars, bufVars, statsVars, paramVars>>

\* ------------------------------------------------------ imperative handle
\* A method of DemoCanvasHandle that forwards `op` to demoRef.current, if any.
\* setParameter leaves the instance with a parameter changed, reset() puts
\* the field initialisers' values back.
HandleCall(op, arg) ==
  /\ mounted = "yes"
  /\ frameQueue = {}
  /\ calls' = IF demoRef = 0 THEN <<>>
              ELSE <<[op |-> op, on |-> demoRef, arg |-> arg]>>
  /\ inst' = IF demoRef = 0 THEN inst
             ELSE [inst EXCEPT ![demoRef].params =
                     CASE op = "setParameter" -> "changed"
                       [] op = "reset" -> "default"
                       [] OTHER -> @]
  /\ UNCHANGED <<pstate, mounted, epoch, eff, demoRef, rafPending, rafRef,
                 rafNext, frameQueue, frameRendered, frameNo, prevActive,
                 container, devicePixelRatio, canvas, sizeRef, roReported,
                 elapsed,
                 sinceStart>>
  /\ UNCHANGED <<shaderVars, portalVars, bufVars, statsVars, paramVars>>

HandleReset == HandleCall("reset", [none |-> TRUE])
HandleGetStats == HandleCall("getStats", [none |-> TRUE])
HandleSetParameter == HandleCall("setParameter", [none |-> TRUE])

\* ----------------------------------------------------------- render loop
\* The browser starts an animation frame `interval` ms after the previous
\* reading of the clock: the callbacks requested so far are the ones this
\* frame runs; callbacks requested while it runs wait for the next frame.
AnimationFrame(interval) ==
  /\ frameQueue = {}
  /\ rafPending # {}
  /\ frameNo < MaxFrames
  /\ frameQueue' = rafPending
  /\ rafPending' = {}
  /\ frameRendered' = {}
  /\ frameNo' = frameNo + 1
  /\ elapsed' = elapsed + interval
  /\ sinceStart' = sinceStart + interval
  /\ calls' = <<>>
  /\ UNCHANGED <<pstate, mounted, epoch, eff, inst, demoRef, rafRef, rafNext,
                 prevActive, container, devicePixelRatio, canvas, sizeRef,
                 roReported>>
  /\ UNCHANGED <<shaderVars, portalVars, bufVars, statsVars, paramVars>>

\* renderLoop of effect run c.eff, invoked as an animation-frame callback.
\* `throws`: render(ctx) raised, so the statements after it did not run.
RenderLoop(c, throws) ==
  LET st == eff[c.eff].state
      ctx == [width |-> sizeRef.width, height |-> sizeRef.height,
              dpr |-> sizeRef.dpr, time |-> sinceStart,
              deltaTime |-> clampDelta(elapsed),
              quality |-> st.quality, reduceMotion |-> st.reduceMotion]
      threw == throws /\ ShouldRender(st.isPaused)
  IN
  /\ c \in frameQueue
  /\ \A d \in frameQueue : c.id <= d.id
  /\ frameQueue' = frameQueue \ {c}
  /\ IF demoRef = 0
       THEN /\ calls' = <<>>
            /\ UNCHANGED <<inst, frameRendered, rafPending, rafRef, rafNext,
                           elapsed>>
       ELSE /\ elapsed' = 0
            /\ IF ShouldRender(st.isPaused)
                 THEN /\ inst' = [inst EXCEPT ![demoRef].renders = @ + 1,
                                             ![demoRef].threw = @ \/ threw]
                      /\ frameRendered' = frameRendered \cup {demoRef}
                 ELSE UNCHANGED <<inst, frameRendered>>
            /\ calls' =
                 (IF ~ShouldRender(st.isPaused) THEN <<>>
                  ELSE <<[op |-> "render", on |-> demoRef, arg |-> ctx,
                          raw |-> elapsed]>>)
                 \o (IF threw THEN <<>>
                     ELSE <<[op |-> "getStats", on |-> demoRef,
                             arg |-> [none |-> TRUE]]>>)
            /\ IF ~Reschedule(threw)
                 THEN UNCHANGED <<rafPending, rafRef, rafNext>>
                 ELSE /\ rafPending' = rafPending \cup {[id |-> rafNext, eff |-> c.eff]}
                      /\ rafRef' = rafNext
                      /\ rafNext' = rafNext + 1
  /\ UNCHANGED <<pstate, mounted, epoch, eff, demoRef, frameNo, prevActive,
                 container, devicePixelRatio, canvas, sizeRef, roReported,
                 sinceStart>>
  /\ UNCHANGED <<shaderVars, portalVars, bufVars, statsVars, paramVars>>

\* DemoCanvas unmounts: the cleanup of the current effect runs and the
\* ResizeObserver is disconnected.
Unmount ==
  /\ mounted = "yes"
  /\ frameQueue = {}
  /\ mounted' = "gone"
  /\ eff' = [eff EXCEPT ![epoch].cancelled = TRUE]
  /\ rafPending' = cancelAnimationFrame(rafPending, rafRef)
  /\ inst' = destroyInstance(inst, demoRef)
  /\ calls' = destroyCalls(demoRef)
  /\ demoRef' = clearedRef(demoRef)
  /\ UNCHANGED <<pstate, epoch, rafRef, rafNext, frameQueue, frameRendered,
                 frameNo, prevActive, container, devicePixelRatio, canvas,
                 sizeRef, roReported, elapsed,
                 sinceStart>>
  /\ UNCHANGED <<shaderVars, portalVars, bufVars, statsVars, paramVars>>

Next ==
  \/ MountHiDpi
  \/ SetActiveDemo
  \/ TogglePause
  \/ SetQuality
  \/ ToggleReduceMotion
  \/ \E e \in Effects, entry \in BOOLEAN : LoadSettles(e, entry)
  \/ \E e \in Effects, ok \in BOOLEAN : InitSettles(e, ok)
  \/ ResizeObserved
  \/ HandleReset
  \/ HandleGetStats
  \/ HandleSetParameter
  \/ \E interval \in Intervals : AnimationFrame(interval)
  \/ \E c \in frameQueue, throws \in BOOLEAN : RenderLoop(c, throws)
  \/ Unmount

Spec == Init /\ [][Next]_vars

\* DemoCanvas under quality changes and container resizes only
NextCanvas ==
  \/ Mount
  \/ SetQuality
  \/ \E e \in Effects, entry \in BOOLEAN : LoadSettles(e, entry)
  \/ \E e \in Effects, ok \in BOOLEAN : InitSettles(e, ok)
  \/ \E rect \in Rects : ContainerResize(rect)
  \/ ResizeObserved
  \/ \E interval \in Intervals : AnimationFrame(interval)
  \/ \E c \in frameQueue, throws \in BOOLEAN : RenderLoop(c, throws)

SpecCanvas == Init /\ [][NextCanvas]_vars

\* ====================================================================
\* Properties of the loader and the render loop
\* ====================================================================

\* C1: in every frame render() is invoked on at most one instance, and at
\* most one render-loop callback is pending at any time.
C1_Exclusivity ==
  /\ Cardinality(frameRendered) <= 1
  /\ Cardinality(rafPending \cup frameQueue) <= 1

\* a frame rendered after a switch in which an earlier instance was destroyed
C1_Witness ==
  /\ epoch >= 2
  /\ frameRendered # {}
  /\ \E e \in Effects : inst[e].destroys > 0

\* C2: an instance that was constructed and then superseded before its init()
\* settled has, once its initDemo is over, received destroy() exactly once and
\* render() zero times -- also when its init() failed.
C2_NoLeakOnCancel ==
  \A e \in Effects :
    (inst[e].built /\ eff[e].supersededEarly /\ eff[e].pc = "done")
      => (inst[e].destroys = 1 /\ inst[e].renders = 0)

\* C3: while the canvas is mounted, the instance that was attached when a
\* request was made has received destroy() only if the init() of that request
\* (or of a later one) has completed successfully.
C3_SwapOrdering ==
  mounted = "yes" =>
    \A n \in 1..epoch :
      (prevActive[n] # 0 /\ inst[prevActive[n]].destroys > 0)
        => \E m \in n..epoch : inst[m].init = "ok"

C5_FailureKeepsPrevious ==
  (/\ mounted = "yes"
   /\ epoch >= 1
   /\ prevActive[epoch] # 0
   /\ eff[epoch].pc = "done"
   /\ inst[epoch].init \in {"none", "failed"})
    => (demoRef = prevActive[epoch] /\ inst[prevActive[epoch]].destroys = 0)

\* C6: while mounted, once an instance has been attached some instance is
\* attached.
C6_AlwaysActiveAfterFirst ==
  (mounted = "yes" /\ \E e \in Effects : inst[e].attached) => demoRef # 0

\* C7: a change of the pause flag leaves the attached instance attached and
\* undestroyed.
C7_PauseKeepsInstance ==
  [][(pstate'.isPaused # pstate.isPaused /\ demoRef # 0)
       => (demoRef' = demoRef /\ inst'[demoRef].destroys = 0)]_vars

\* C11: the first frame rendered after a quality change (the observer having
\* reported the container's current rectangle) gets a context whose width and
\* height are floor(container width x m) and floor(container height x m),
\* m = min(resolution multiplier of the new quality, devicePixelRatio); the
\* pair always comes from one rectangle and one multiplier.
C11_ResizeAtomic ==
  \A k \in DOMAIN calls :
    (/\ calls[k].op = "render"
     /\ epoch >= 2
     /\ eff[epoch].state.quality # eff[epoch - 1].state.quality
     /\ inst[epoch].renders = 1
     /\ roReported = container)
      => /\ calls[k].arg.width
              = resizeTarget(container, pstate.quality, devicePixelRatio).width
         /\ calls[k].arg.height
              = resizeTarget(container, pstate.quality, devicePixelRatio).height
         /\ \E rect \in Rects, q \in QualityLevels :
              /\ calls[k].arg.width = resizeTarget(rect, q, devicePixelRatio).width
              /\ calls[k].arg.height = resizeTarget(rect, q, devicePixelRatio).height

\* C15: the deltaTime of every context passed to render() is the smaller of
\* the raw time since the previous tick and 0.1 s (100 ms).
C15_DeltaClamped ==
  \A k \in DOMAIN calls :
    calls[k].op = "render"
      => /\ calls[k].arg.deltaTime <= 100
         /\ calls[k].arg.deltaTime <= calls[k].raw
         /\ calls[k].arg.deltaTime \in {100, calls[k].raw}

\* a frame rendered 5000 ms after the previous tick
C15_Witness ==
  \E k \in DOMAIN calls :
    /\ calls[k].op = "render"
    /\ calls[k].raw >= 5000
    /\ calls[k].arg.deltaTime = 100

\* C17: an instance whose init() threw or rejected is never attached: it is
\* not demoRef.current, no render, resize, reset, setParameter or getStats is
\* invoked on it, and no render-loop callback is scheduled for its effect run.
C17_FailedNeverAttached ==
  \A e \in Effects :
    inst[e].init = "failed"
      => /\ ~inst[e].attached
         /\ demoRef # e
         /\ inst[e].renders = 0
         /\ \A k \in DOMAIN calls :
              calls[k].on = e => calls[k].op \notin
                {"render", "resize", "reset", "setParameter", "getStats"}
         /\ \A c \in rafPending \cup frameQueue : c.eff # e

\* an instance failed its init() and another one is attached and rendering
C17_Witness ==
  /\ \E e \in Effects : inst[e].init = "failed"
  /\ \E k \in DOMAIN calls : calls[k].op = "render"

\* C18: once the canvas is unmounted and every pending load has settled,
\* every constructed instance has received destroy() exactly once.
C18_DestroyedExactlyOnce ==
  (mounted = "gone" /\ \A e \in Effects : eff[e].pc \in {"idle", "done"})
    => \A e \in Effects : inst[e].built => inst[e].destroys = 1

\* C19: no instance receives destroy() twice, and no other method is invoked
\* on an instance that has received destroy().
C19_NothingAfterDestroy ==
  \A e \in Effects :
    /\ inst[e].destroys <= 1
    /\ \A k \in DOMAIN calls :
         (calls[k].on = e /\ calls[k].op # "destroy") => inst[e].destroys = 0

\* an instance was destroyed by a switch and the next one is rendering
C19_Witness ==
  \E e \in Effects :
    /\ inst[e].attached
    /\ inst[e].destroys = 1
    /\ \E k \in DOMAIN calls : calls[k].op = "render" /\ calls[k].on # e

\* C20: a tick of the render loop with an instance attached invokes render
\* on it exactly once when the pause flag is clear and not at all when it is
\* set; a frame runs at most one tick; and no step both destroys an instance
\* and renders it.
C20_RenderOncePerTick ==
  /\ [](Cardinality(frameQueue) <= 1)
  /\ [][(frameQueue # {} /\ frameQueue' # frameQueue /\ demoRef # 0)
          => LET n == Cardinality({k \in DOMAIN calls' :
                        calls'[k].op = "render" /\ calls'[k].on = demoRef})
             IN /\ n = IF pstate.isPaused THEN 0 ELSE 1
                /\ inst'[demoRef].renders = inst[demoRef].renders + n
                /\ \A k \in DOMAIN calls' :
                     calls'[k].op = "render" => calls'[k].on = demoRef]_vars
  /\ [](\A j \in DOMAIN calls, k \in DOMAIN calls :
          (calls[j].op = "destroy" /\ calls[k].op = "render")
            => calls[j].on # calls[k].on)

\* a tick ran while paused with an instance attached, and nothing was rendered
C20_Witness ==
  /\ frameNo >= 1
  /\ frameQueue = {}
  /\ pstate.isPaused
  /\ demoRef # 0
  /\ rafPending # {}
  /\ calls # <<>>
  /\ calls[1].op = "getStats"
  /\ \A e \in Effects : inst[e].renders = 0

\* C21: after render() threw during a tick, no render-loop callback is
\* scheduled for that instance's effect run; the instance receives destroy()
\* exactly once when it is detached by the next switch, state change or
\* unmount, and not before.
C21_ThrowStopsLoop ==
  \A e \in Effects :
    inst[e].threw
      => /\ \A c \in rafPending \cup frameQueue : c.eff # e
         /\ demoRef = e => inst[e].destroys = 0
         /\ demoRef # e => inst[e].destroys = 1

\* an instance whose render() threw has been detached and destroyed
C21_Witness ==
  \E e \in Effects : inst[e].threw /\ demoRef # e /\ inst[e].destroys = 1

\* C22: the step that attaches a new instance (it has become Ready, no frame
\* has been rendered for it) invokes its resize(width, height, dpr) with the
\* canvas's current width and height.
C22_ResizeOnReady ==
  [][(demoRef = 0 /\ demoRef' # 0)
       => \E k \in DOMAIN calls' :
            /\ calls'[k].op = "resize"
            /\ calls'[k].on = demoRef'
            /\ calls'[k].arg.width = canvas'.width
            /\ calls'[k].arg.height = canvas'.height]_vars

\* C23: resize handling is idempotent: in every state, running it and then
\* running it again for the same container rectangle and quality, the second
\* run changes neither the canvas dimensions nor the stored size and makes no
\* resize() call.
C23_ResizeIdempotent ==
  LET r1 == handleResize(canvas, sizeRef, container, pstate.quality,
                         devicePixelRatio, demoRef)
      r2 == handleResize(r1.canvas, r1.sizeRef, container, pstate.quality,
                         devicePixelRatio, demoRef)
  IN /\ r2.canvas = r1.canvas
     /\ r2.sizeRef = r1.sizeRef
     /\ r2.calls = <<>>

\* an instance is attached, the canvas has been given a size other than its
\* default one, and both the attach and the observer have run resize handling
\* for the container's current rectangle
C23_Witness ==
  /\ demoRef # 0
  /\ roReported = container
  /\ canvas = [width |-> 600, height |-> 300]
  /\ sizeRef.width = 600
  /\ calls = <<>>

\* C28: a change of the pause flag, the quality level or the reduced-motion
\* flag while an instance is attached destroys that instance and starts the
\* load of a new one for the same demo id; an instance that is attached has
\* the default parameter values and no frame rendered, its time since start
\* is 0, and the context time of every frame is the time since that start.
C28_ReloadOnFlagChange ==
  [][/\ (/\ demoRef # 0
         /\ \/ pstate'.isPaused # pstate.isPaused
            \/ pstate'.quality # pstate.quality
            \/ pstate'.reduceMotion # pstate.reduceMotion)
        => /\ inst[demoRef].destroys = 0
           /\ inst'[demoRef].destroys = 1
           /\ demoRef' = 0
           /\ epoch' = epoch + 1
           /\ eff'[epoch'].pc = "loading"
           /\ ~inst'[epoch'].built
           /\ inst'[epoch'].demoId = inst[demoRef].demoId
     /\ (demoRef = 0 /\ demoRef' # 0)
        => /\ inst'[demoRef'].params = "default"
           /\ inst'[demoRef'].renders = 0
           /\ sinceStart' = 0
     /\ \A k \in DOMAIN calls' :
          calls'[k].op = "render" => calls'[k].arg.time = sinceStart']_vars

\* after a flag change a second instance of the same demo is attached with
\* default parameters and time 0; the first one had a parameter set and a
\* frame rendered
C28_Witness ==
  /\ epoch = 2
  /\ demoRef = 2
  /\ eff[2].state.activeDemoId = eff[1].state.activeDemoId
  /\ inst[1].params = "changed"
  /\ inst[1].renders >= 1
  /\ inst[1].destroys = 1
  /\ inst[2].params = "default"
  /\ sinceStart = 0

\* C29: at every rendered frame the context's width and height are the
\* canvas's current backing-store width and height.
C29_ContextMatchesCanvas ==
  \A k \in DOMAIN calls :
    calls[k].op = "render"
      => /\ calls[k].arg.width = canvas.width
         /\ calls[k].arg.height = canvas.height

\* ====================================================================
\* Shader compilation and program linking (gl/core/shader.ts)
\* ====================================================================
ShaderOutcomes == {"ok", "null", "compileFail"}
ProgramOutcomes == {"ok", "null", "linkFail"}

\* createShader(gl, type, source): `outcome` is what the driver does --
\* gl.createShader returns null, the compile status is false, or all is well.
createShader(live, name, outcome) ==
  CASE outcome = "null" ->
         [live |-> live, threw |-> TRUE, created |-> {}]
    [] outcome = "compileFail" ->
         \* gl.deleteShader(shader); throw
         [live |-> live \ {name}, threw |-> TRUE, created |-> {name}]
    [] OTHER ->
         [live |-> live \cup {name}, threw |-> FALSE, created |-> {name}]

\* createProgram(gl, vertexSource, fragmentSource): objects of call n are
\* named <<n, "vs">>, <<n, "fs">>, <<n, "program">>.
createProgram(live, n, vsOut, fsOut, progOut) ==
  LET vs == <<n, "vs">>
      fs == <<n, "fs">>
      pr == <<n, "program">>
      v == createShader(live, vs, vsOut)
      f == createShader(v.live, fs, fsOut)
  IN IF v.threw
       THEN [live |-> v.live, threw |-> TRUE, created |-> v.created, program |-> <<>>]
     ELSE IF f.threw
       THEN [live |-> f.live, threw |-> TRUE, created |-> v.created \cup f.created,
             program |-> <<>>]
     ELSE IF progOut = "null"
       THEN \* deleteShader(vertexShader); deleteShader(fragmentShader); throw
            [live |-> f.live \ {vs, fs}, threw |-> TRUE, created |-> {vs, fs},
             program |-> <<>>]
     ELSE IF progOut = "linkFail"
       THEN \* shaders deleted after linking, then deleteProgram(program); throw
            [live |-> f.live \ {vs, fs, pr}, threw |-> TRUE, created |-> {vs, fs, pr},
             program |-> <<>>]
     ELSE [live |-> (f.live \ {vs, fs}) \cup {pr}, threw |-> FALSE,
           created |-> {vs, fs, pr}, program |-> pr]

\* One call of createProgram on the shared context.
CreateProgramCall(vsOut, fsOut, progOut) ==
  /\ shCalls < MaxCalls
  /\ LET r == createProgram(shLive, shCalls + 1, vsOut, fsOut, progOut)
     IN /\ shLive' = r.live
        /\ shLast' = [threw |-> r.threw, created |-> r.created, program |-> r.program]
  /\ shCalls' = shCalls + 1
  /\ UNCHANGED <<loaderVars, statsVars, paramVars, portalVars, bufVars>>

\* The owner of a linked program deletes it (gl.deleteProgram in destroy()).
DeleteProgram(pr) ==
  /\ pr \in shLive
  /\ pr[2] = "program"
  /\ shLive' = shLive \ {pr}
  /\ UNCHANGED <<shCalls, shLast, loaderVars, statsVars, paramVars, portalVars, bufVars>>

NextShader ==
  \/ \E vsOut \in ShaderOutcomes, fsOut \in ShaderOutcomes, progOut \in ProgramOutcomes :
       CreateProgramCall(vsOut, fsOut, progOut)
  \/ \E pr \in shLive : DeleteProgram(pr)

SpecShader == Init /\ [][NextShader]_vars

\* C9: when createProgram throws, every shader and program object created
\* during that call has been deleted.
C9_NoLeakOnFailure ==
  shLast.threw => (shLast.created \cap shLive = {})

\* ====================================================================
\* Render targets (gl/core/texture.ts) and the PortalRTTDemo instance
\* ====================================================================
FramebufferOutcomes == {"ok", "fbNull", "texNull", "rbNull", "incomplete"}
Sizes == {0, 300, 700, 1200}


\* createFramebufferWithTexture(gl, width, height, useDepth).  The returned
\* FramebufferInfo is {framebuffer, texture, width, height}: the depth
\* renderbuffer is attached but not part of the result.
createFramebufferWithTexture(live, useDepth, outcome) ==
  LET fb == <<"fbo", "framebuffer">>
      tex == <<"fbo", "texture">>
      rb == <<"fbo", "renderbuffer">>
      depth == IF useDepth /\ outcome # "rbNull" THEN {rb} ELSE {}
  IN CASE outcome = "fbNull" ->
            [live |-> live, threw |-> TRUE, created |-> {}, depth |-> FALSE]
       [] outcome = "texNull" ->
            [live |-> live \cup {fb}, threw |-> TRUE, created |-> {fb}, depth |-> FALSE]
       [] outcome = "incomplete" ->
            [live |-> live \cup {fb, tex} \cup depth, threw |-> TRUE,
             created |-> {fb, tex} \cup depth, depth |-> depth # {}]
       [] OTHER ->
            [live |-> live \cup {fb, tex} \cup depth, threw |-> FALSE,
             created |-> {fb, tex} \cup depth, depth |-> depth # {}]

\* objects of one mesh built by createMeshVao
MeshObjects(m) == {<<m, "vao">>, <<m, "position">>, <<m, "normal">>, <<m, "color">>}

\* new PortalRTTDemo(gl): the StatsTracker creates a query when the timer
\* extension is present.
PortalConstruct(timerExt) ==
  /\ portal.st = "none"
  /\ portal' = [portal EXCEPT !.st = "constructed", !.gpuQuery = timerExt]
  /\ glLive' = IF timerExt THEN glLive \cup {<<"stats", "query">>} ELSE glLive
  /\ portalCall' = [op |-> "constructor", width |-> 0, height |-> 0]
  /\ UNCHANGED <<glStore, glViewport, scenePass, loaderVars, statsVars, paramVars, shaderVars, bufVars>>

\* PortalRTTDemo.init(): the first statement that throws ends it.
PortalInit(s1, s2, s3, s4, p1, p2, fbOut) ==
  /\ portal.st = "constructed"
  /\ LET scene == createProgram(glLive, "scene", s1, s2, p1)
         post == createProgram(scene.live, "post", s3, s4, p2)
         meshes == post.live \cup MeshObjects("icosahedron") \cup MeshObjects("torus")
                     \cup {<<"quad", "vao">>, <<"quad", "buffer">>}
         target == createFramebufferWithTexture(meshes, TRUE, fbOut)
     IN IF scene.threw
          THEN /\ glLive' = scene.live
               /\ portal' = [portal EXCEPT !.st = "failed"]
               /\ UNCHANGED glStore
        ELSE IF post.threw
          THEN /\ glLive' = post.live
               /\ portal' = [portal EXCEPT !.st = "failed", !.sceneProgram = TRUE]
               /\ UNCHANGED glStore
        ELSE IF target.threw
          THEN /\ glLive' = target.live
               /\ portal' = [portal EXCEPT !.st = "failed", !.sceneProgram = TRUE,
                               !.postProgram = TRUE, !.icosahedronMesh = TRUE,
                               !.torusMesh = TRUE, !.quadVao = TRUE, !.quadBuffer = TRUE]
               /\ glStore' = [tex |-> IF <<"fbo", "texture">> \in target.created
                                        THEN portal.fboSize ELSE 0,
                              depth |-> IF target.depth THEN portal.fboSize ELSE 0]
        ELSE /\ glLive' = target.live
             /\ portal' = [portal EXCEPT !.st = "ready", !.sceneProgram = TRUE,
                             !.postProgram = TRUE, !.icosahedronMesh = TRUE,
                             !.torusMesh = TRUE, !.quadVao = TRUE, !.quadBuffer = TRUE,
                             !.fbo = TRUE, !.fboWidth = portal.fboSize,
                             !.fboHeight = portal.fboSize]
             /\ glStore' = [tex |-> portal.fboSize,
                            depth |-> IF target.depth THEN portal.fboSize ELSE 0]
  /\ portalCall' = [op |-> "init", width |-> 0, height |-> 0]
  /\ UNCHANGED <<glViewport, scenePass, loaderVars, statsVars, paramVars, shaderVars, bufVars>>

\* PortalRTTDemo.resize(width, height, dpr) -> resizeFramebuffer
PortalResize(width, height) ==
  /\ portal.st = "ready"
  /\ LET newFboSize == Min2(Max2(width, height), 1024)
     IN IF Abs(newFboSize - portal.fboSize) > 100 /\ portal.fbo
          THEN /\ portal' = [portal EXCEPT !.fboSize = newFboSize,
                               !.fboWidth = newFboSize, !.fboHeight = newFboSize]
               \* resizeTexture: texImage2D on the colour texture only
               /\ glStore' = [glStore EXCEPT !.tex = newFboSize]
          ELSE UNCHANGED <<portal, glStore>>
  /\ portalCall' = [op |-> "resize", width |-> width, height |-> height]
  /\ UNCHANGED <<glLive, glViewport, scenePass, loaderVars, statsVars, paramVars, shaderVars, bufVars>>

\* PortalRTTDemo.render(ctx): scene pass into the target, then the
\* postprocess pass to the screen; no GPU object is created.
PortalRender(width, height) ==
  /\ portal.st = "ready"
  /\ IF ~portal.fbo
       THEN UNCHANGED <<glViewport, scenePass>>
       ELSE \* pass 1: bindFramebuffer(fbo), viewport(0, 0, fbo.width,
            \* fbo.height), renderScene; pass 2: viewport(0, 0, ctx.width,
            \* ctx.height), draw to the screen
            /\ scenePass' = [drawn |-> TRUE,
                             viewport |-> <<portal.fboWidth, portal.fboHeight>>,
                             tex |-> glStore.tex, depth |-> glStore.depth,
                             width |-> portal.fboWidth, height |-> portal.fboHeight]
            /\ glViewport' = <<width, height>>
  /\ portalCall' = [op |-> "render", width |-> width, height |-> height]
  /\ UNCHANGED <<glLive, glStore, portal, loaderVars, statsVars, paramVars, shaderVars, bufVars>>

\* PortalRTTDemo.destroy()
PortalDestroy ==
  /\ portal.st \in {"constructed", "ready", "failed"}
  /\ glLive' = glLive
       \ ((IF portal.sceneProgram THEN {<<"scene", "program">>} ELSE {})
          \cup (IF portal.postProgram THEN {<<"post", "program">>} ELSE {})
          \cup (IF portal.icosahedronMesh THEN MeshObjects("icosahedron") ELSE {})
          \cup (IF portal.torusMesh THEN MeshObjects("torus") ELSE {})
          \cup (IF portal.quadVao THEN {<<"quad", "vao">>} ELSE {})
          \cup (IF portal.quadBuffer THEN {<<"quad", "buffer">>} ELSE {})
          \cup (IF portal.fbo THEN {<<"fbo", "framebuffer">>, <<"fbo", "texture">>} ELSE {})
          \cup (IF portal.gpuQuery THEN {<<"stats", "query">>} ELSE {}))
  /\ portal' = [portal EXCEPT !.st = "destroyed", !.gpuQuery = FALSE]
  /\ portalCall' = [op |-> "destroy", width |-> 0, height |-> 0]
  /\ UNCHANGED <<glStore, glViewport, scenePass, loaderVars, statsVars, paramVars, shaderVars, bufVars>>

NextPortal ==
  \/ \E timerExt \in BOOLEAN : PortalConstruct(timerExt)
  \/ \E s1 \in ShaderOutcomes, s2 \in ShaderOutcomes, s3 \in ShaderOutcomes,
        s4 \in ShaderOutcomes, p1 \in ProgramOutcomes, p2 \in ProgramOutcomes,
        fbOut \in FramebufferOutcomes :
       PortalInit(s1, s2, s3, s4, p1, p2, fbOut)
  \/ \E w \in Sizes, h \in Sizes : PortalResize(w, h)
  \/ \E w \in Sizes, h \in Sizes : PortalRender(w, h)
  \/ PortalDestroy

SpecPortal == Init /\ [][NextPortal]_vars

\* C8: after destroy() returns, no GPU object the instance created remains
\* undeleted.
C8_DestroyReleasesAll ==
  portal.st = "destroyed" => glLive = {}

\* C12: a resize to (0, 0) creates, deletes and reallocates no GPU object of
\* the instance.
C12_ZeroResizeInert ==
  [][portalCall' = [op |-> "resize", width |-> 0, height |-> 0]
       => (glLive' = glLive /\ glStore' = glStore)]_vars

\* C26: at every draw into the render target made by
\* createFramebufferWithTexture (depth requested), the colour texture's
\* storage, the depth attachment's storage (if the attachment exists) and the
\* viewport all have the target's recorded width x height, also after
\* resizeFramebuffer.
C26_TargetStorageMatches ==
  scenePass.drawn =>
    /\ scenePass.viewport = <<scenePass.width, scenePass.height>>
    /\ scenePass.tex = scenePass.width
    /\ scenePass.tex = scenePass.height
    /\ scenePass.depth # 0 => /\ scenePass.depth = scenePass.width
                              /\ scenePass.depth = scenePass.height

\* ====================================================================
\* Double buffers: PingPongDemo (texture pair) and GPUParticlesDemo
\* (transform-feedback buffer pair)
\* ====================================================================
Simulations == {"reaction-diffusion", "game-of-life"}
BASE_PARTICLE_COUNT == 50000

\* QUALITY_PRESETS[level].particleMultiplier, in hundredths
particleMultiplier ==
  [low |-> 25, medium |-> 50, high |-> 100, ultra |-> 150]

\* getScaledParticleCount: Math.floor(baseCount * preset.particleMultiplier)
getScaledParticleCount(baseCount, level) ==
  (baseCount * particleMultiplier[level]) \div 100

\* the name the context gives to a new object: the smallest one not in use
NewName(live) ==
  CHOOSE n \in 1..(Cardinality(live) + 1) :
    n \notin live /\ \A m \in 1..(n - 1) : m \in live

\* faulty variant: the index is left where it was
flipStuck(i) == i

\* `this.currentFbo = 1 - this.currentFbo` / `nextBuffer = 1 - this.currentBuffer`
flip(i) == 1 - i

\* PingPongDemo.initFBOs(): delete the old pair, create a new one, index 0
initFBOs(p) ==
  LET kept == p.live \ {p.fbo1, p.fbo2}
      t1 == NewName(kept)
      t2 == NewName(kept \cup {t1})
  IN [p EXCEPT !.fbo1 = t1, !.fbo2 = t2, !.live = kept \cup {t1, t2},
               !.currentFbo = 0]

ppReadFbo(p) == IF p.currentFbo = 0 THEN p.fbo1 ELSE p.fbo2
ppWriteFbo(p) == IF p.currentFbo = 0 THEN p.fbo2 ELSE p.fbo1

\* the simulation loop of PingPongDemo.render: `n` iterations from index
\* `cur`; the result is the sequence of steps and the final index
RECURSIVE ppSimulate(_, _, _)
ppSimulate(p, n, steps) ==
  IF n = 0 THEN [p |-> p, steps |-> steps]
  ELSE ppSimulate([p EXCEPT !.currentFbo = flip(p.currentFbo)], n - 1,
                  Append(steps, [read |-> ppReadFbo(p), write |-> ppWriteFbo(p),
                                 before |-> p.currentFbo,
                                 after |-> flip(p.currentFbo)]))

\* faulty variant: four iterations whatever the simulation
ppIterationsFixed(simulation) == 4

\* `const iterations = isGameOfLife ? 1 : 4`
ppIterations(simulation) == IF simulation = "game-of-life" THEN 1 ELSE 4

\* PingPongDemo.init(): programs, quad, then initFBOs()
PPInit ==
  /\ ~pp.ready
  /\ pp' = [initFBOs(pp) EXCEPT !.ready = TRUE]
  /\ ppSwaps' = 0
  /\ UNCHANGED <<ppSteps, ppDisplay, gp, gpSwaps, gpStep, loaderVars, statsVars, paramVars, shaderVars,
                 portalVars>>

\* PingPongDemo.getParameters()
ppGetParameters(p) ==
  [simulation |-> p.simulation, speed |-> p.speed, reset |-> FALSE]

\* PingPongDemo.setParameter(key, value)
PPSetParameter(key, value) ==
  /\ pp' = CASE key = "simulation" /\ value # pp.simulation ->
                  [pp EXCEPT !.simulation = value, !.shouldReset = TRUE]
             [] key = "speed" -> [pp EXCEPT !.speed = value]
             [] key = "reset" /\ value = TRUE ->
                  [pp EXCEPT !.shouldReset = TRUE]
             [] OTHER -> pp
  /\ paramCall' = [demo |-> "pingPong", op |-> "setParameter", key |-> key,
                   n |-> 1 - paramCall.n]
  /\ UNCHANGED <<ppSwaps, ppSteps, ppDisplay, gp, gpSwaps, gpStep, nebula,
                 loaderVars, statsVars, shaderVars, portalVars>>

\* PingPongDemo.reset()
PPReset ==
  /\ pp' = [pp EXCEPT !.simulation = "reaction-diffusion", !.speed = 100,
                      !.shouldReset = TRUE]
  /\ paramCall' = [demo |-> "pingPong", op |-> "reset", key |-> "",
                   n |-> 1 - paramCall.n]
  /\ UNCHANGED <<ppSwaps, ppSteps, ppDisplay, gp, gpSwaps, gpStep, nebula,
                 loaderVars, statsVars, shaderVars, portalVars>>

\* PingPongDemo.render(ctx)
PPRender ==
  /\ pp.ready
  /\ LET p0 == IF pp.shouldReset THEN [initFBOs(pp) EXCEPT !.shouldReset = FALSE]
               ELSE pp
         base == IF pp.shouldReset THEN 0 ELSE ppSwaps
         n == ppIterations(p0.simulation)
         r == ppSimulate(p0, n, <<>>)
     IN /\ base + n <= MaxSwaps
        /\ pp' = r.p
        /\ ppSteps' = r.steps
        /\ ppSwaps' = base + n
        /\ ppDisplay' = [read |-> ppReadFbo(r.p), after |-> Len(r.steps),
                         simulation |-> p0.simulation]
  /\ UNCHANGED <<gp, gpSwaps, gpStep, loaderVars, statsVars, paramVars, shaderVars, portalVars>>

\* the elements of the array `a`
Elements(a) == {a[k] : k \in DOMAIN a}

\* faulty variant: the second buffer of an existing pair keeps its data store
createParticleSystemHalf(g) ==
  LET oldBuffers == Elements(g.buffers)
      oldVaos == Elements(g.updateVaos) \cup Elements(g.renderVaos)
      keptBuffers == g.live \ oldBuffers
      keptVaos == g.liveVaos \ oldVaos
      b1 == NewName(keptBuffers)
      b2 == NewName(keptBuffers \cup {b1})
      u1 == NewName(keptVaos)
      u2 == NewName(keptVaos \cup {u1})
      r1 == NewName(keptVaos \cup {u1, u2})
      r2 == NewName(keptVaos \cup {u1, u2, r1})
  IN [g EXCEPT !.buffers = <<b1, b2>>,
               !.live = keptBuffers \cup {b1, b2},
               !.capacity = <<g.particleCount,
                              IF g.capacity = <<>> THEN g.particleCount
                              ELSE g.capacity[2]>>,
               !.updateVaos = <<u1, u2>>,
               !.renderVaos = <<r1, r2>>,
               !.liveVaos = keptVaos \cup {u1, u2, r1, r2},
               !.vaoBuffer = <<b1, b2, b1, b2>>,
               !.deleted = [buffers |-> oldBuffers, vaos |-> oldVaos]]

\* GPUParticlesDemo.createParticleSystem(): delete the buffers and the vertex
\* arrays of both arrays, then create two buffers holding particleCount
\* entries each, and for each buffer one update and one render vertex array
\* (vaoBuffer[v] is the buffer the vertex array named v reads)
createParticleSystem(g) ==
  LET oldBuffers == Elements(g.buffers)
      oldVaos == Elements(g.updateVaos) \cup Elements(g.renderVaos)
      keptBuffers == g.live \ oldBuffers
      keptVaos == g.liveVaos \ oldVaos
      b1 == NewName(keptBuffers)
      b2 == NewName(keptBuffers \cup {b1})
      u1 == NewName(keptVaos)
      u2 == NewName(keptVaos \cup {u1})
      r1 == NewName(keptVaos \cup {u1, u2})
      r2 == NewName(keptVaos \cup {u1, u2, r1})
  IN [g EXCEPT !.buffers = <<b1, b2>>,
               !.live = keptBuffers \cup {b1, b2},
               !.capacity = <<g.particleCount, g.particleCount>>,
               !.updateVaos = <<u1, u2>>,
               !.renderVaos = <<r1, r2>>,
               !.liveVaos = keptVaos \cup {u1, u2, r1, r2},
               !.vaoBuffer = <<b1, b2, b1, b2>>,
               !.deleted = [buffers |-> oldBuffers, vaos |-> oldVaos]]

\* GPUParticlesDemo.init()
GPInit ==
  /\ ~gp.ready
  /\ gp' = [createParticleSystem(gp) EXCEPT !.ready = TRUE]
  /\ UNCHANGED <<pp, ppSwaps, ppSteps, ppDisplay, gpSwaps, gpStep, loaderVars, statsVars, paramVars,
                 shaderVars, portalVars>>

\* GPUParticlesDemo.reset()
GPReset ==
  /\ gp.ready
  /\ gp' = createParticleSystem(gp)
  /\ UNCHANGED <<pp, ppSwaps, ppSteps, ppDisplay, gpSwaps, gpStep, loaderVars, statsVars, paramVars,
                 shaderVars, portalVars>>

\* GPUParticlesDemo.render(ctx) with ctx.quality = quality
GPRender(quality) ==
  /\ gp.ready
  /\ gpSwaps < MaxSwaps
  /\ LET g0 == IF quality # gp.currentQuality
                 THEN createParticleSystem(
                        [gp EXCEPT !.currentQuality = quality,
                                   !.particleCount =
                                      getScaledParticleCount(BASE_PARTICLE_COUNT, quality)])
                 ELSE gp
         nextBuffer == flip(g0.currentBuffer)
     IN /\ gpStep' = [read |-> g0.buffers[g0.currentBuffer + 1],
                      write |-> g0.buffers[nextBuffer + 1],
                      drawn |-> g0.particleCount,
                      before |-> g0.currentBuffer, after |-> nextBuffer,
                      quality |-> quality,
                      recreated |-> quality # gp.currentQuality,
                      old |-> [buffers |-> Elements(gp.buffers),
                               vaos |-> Elements(gp.updateVaos)
                                          \cup Elements(gp.renderVaos)],
                      deleted |-> g0.deleted,
                      capacity |-> g0.capacity,
                      updateVao |-> g0.updateVaos[g0.currentBuffer + 1],
                      renderVao |-> g0.renderVaos[nextBuffer + 1]]
        /\ gp' = [g0 EXCEPT !.currentBuffer = nextBuffer]
  /\ gpSwaps' = gpSwaps + 1
  /\ UNCHANGED <<pp, ppSwaps, ppSteps, ppDisplay, loaderVars, statsVars, paramVars, shaderVars, portalVars>>

NextBuf ==
  \/ PPInit
  \/ \E v \in Simulations : PPSetParameter("simulation", v)
  \/ \E v \in BOOLEAN : PPSetParameter("reset", v)
  \/ PPReset
  \/ PPRender
  \/ GPInit
  \/ GPReset
  \/ \E q \in DOMAIN particleMultiplier : GPRender(q)

SpecBuf == Init /\ [][NextBuf]_vars

\* C10: the index of each double buffer equals the number of flips since it
\* was (re)initialised, modulo 2; every flip goes from i to 1 - i; and in
\* every step the resource read and the resource written are the two
\* different members of the pair.
C10_Alternation ==
  /\ pp.currentFbo = ppSwaps % 2
  /\ gp.currentBuffer = gpSwaps % 2
  /\ \A k \in 1..Len(ppSteps) :
       /\ ppSteps[k].after = 1 - ppSteps[k].before
       /\ ppSteps[k].before = (k - 1 + ppSwaps - Len(ppSteps)) % 2
       /\ ppSteps[k].read # ppSteps[k].write
       /\ {ppSteps[k].read, ppSteps[k].write} = {pp.fbo1, pp.fbo2}
  /\ gpSwaps > 0 =>
       /\ gpStep.after = 1 - gpStep.before
       /\ gpStep.read # gpStep.write
       /\ {gpStep.read, gpStep.write} \subseteq {gp.buffers[1], gp.buffers[2]}

\* both buffers have been flipped at least three times, the ping-pong pair
\* within one four-iteration frame
C10_Witness ==
  /\ Len(ppSteps) = 4
  /\ ppSwaps >= 4
  /\ gpSwaps >= 3

\* C25: in every ping-pong frame the index is swapped once per simulation
\* iteration, of which there are 4 for reaction-diffusion and 1 for
\* game-of-life; each iteration reads what the previous one wrote; the display
\* pass comes after all of them and samples the texture the last one wrote.
C25_FrameOrder ==
  ppDisplay.after > 0 =>
    /\ Len(ppSteps) = (IF ppDisplay.simulation = "reaction-diffusion" THEN 4 ELSE 1)
    /\ ppDisplay.after = Len(ppSteps)
    /\ \A k \in 1..Len(ppSteps) : ppSteps[k].after = 1 - ppSteps[k].before
    /\ \A k \in 1..(Len(ppSteps) - 1) :
         /\ ppSteps[k + 1].before = ppSteps[k].after
         /\ ppSteps[k + 1].read = ppSteps[k].write
    /\ ppDisplay.read = ppSteps[Len(ppSteps)].write

\* a game-of-life frame has been rendered
C25_Witness ==
  /\ ppDisplay.after = 1
  /\ ppDisplay.simulation = "game-of-life"
  /\ Len(ppSteps) = 1
  /\ pp.currentFbo = 1

\* C24: a GPU-particle frame whose context quality differs from the
\* instance's current one deletes both buffers and the four vertex arrays and
\* creates them again for the new particle count before its draws; at the
\* draws of every frame the two buffers (all that exist, with the vertex
\* arrays made for them) hold as many particles as are drawn, the scaled
\* count of the frame's quality.
C24_ReallocBeforeDraw ==
  gpSwaps > 0 =>
    /\ gpStep.recreated => /\ gpStep.deleted = gpStep.old
                           /\ Cardinality(gpStep.old.buffers) = 2
                           /\ Cardinality(gpStep.old.vaos) = 4
    /\ gpStep.capacity[1] = gpStep.capacity[2]
    /\ gpStep.capacity[1] = gpStep.drawn
    /\ gpStep.drawn = getScaledParticleCount(BASE_PARTICLE_COUNT, gpStep.quality)
    /\ gp.live = {gpStep.read, gpStep.write}
    /\ gp.liveVaos = Elements(gp.updateVaos) \cup Elements(gp.renderVaos)
    /\ Cardinality(gp.liveVaos) = 4
    /\ gp.vaoBuffer[gpStep.updateVao] = gpStep.read
    /\ gp.vaoBuffer[gpStep.renderVao] = gpStep.write

\* a frame that found a new quality and drew a quarter of the base count
C24_Witness ==
  /\ gpSwaps >= 2
  /\ gpStep.recreated
  /\ gpStep.drawn = 12500
  /\ gpStep.before = 1

\* ====================================================================
\* StatsTracker (gl/core/stats) and the timer query it drives.  fps and
\* frameTime, moving averages of wall-clock intervals, are left out; gpuTime
\* is kept in nanoseconds and its moving average is taken in integers.
\* ====================================================================
TimeElapsedValues == {2000000, 8000000}

\* getStats(): optional fields are <<>> when undefined, <<v>> otherwise;
\* gpuTime is reported in hundredths of a millisecond
getStatsNoGuard(t) ==
  [drawCalls |-> t.drawCalls,
   triangles |-> t.triangles,
   instances |-> IF t.instances > 0 THEN <<t.instances>> ELSE <<>>,
   particles |-> IF t.particles > 0 THEN <<t.particles>> ELSE <<>>,
   gpuTime |-> <<(t.gpuTime + 5000) \div 10000>>]

getStats(t) ==
  [drawCalls |-> t.drawCalls,
   triangles |-> t.triangles,
   instances |-> IF t.instances > 0 THEN <<t.instances>> ELSE <<>>,
   particles |-> IF t.particles > 0 THEN <<t.particles>> ELSE <<>>,
   gpuTime |-> IF t.timerExt THEN <<(t.gpuTime + 5000) \div 10000>> ELSE <<>>]

\* getStats() of GPUParticlesDemo and of InstancedDemo: the tracker's stats
\* with one field replaced
particlesGetStats(t, particleCount) ==
  [getStats(t) EXCEPT !.particles = <<particleCount>>]

instancedGetStats(t, instanceCount) ==
  [getStats(t) EXCEPT !.instances = <<instanceCount>>]

\* new StatsTracker(gl): `ext` -- the context has the timer-query extension;
\* `q` -- gl.createQuery() returned an object
StatsConstruct(ext, q) ==
  /\ stats.st = "none"
  /\ stats' = [stats EXCEPT !.st = "live", !.timerExt = ext,
                            !.gpuQuery = ext /\ q]
  /\ UNCHANGED <<query, disjoint, statsOut, statsFrames>>
  /\ UNCHANGED <<loaderVars, shaderVars, portalVars, bufVars, paramVars>>

\* faulty variant: the timer is started whether or not a range is open
mayBeginQueryAlways(t) == t.timerExt /\ t.gpuQuery

\* `if (this.timerExt && this.gpuQuery && !this.queryInProgress)`
mayBeginQuery(t) == t.timerExt /\ t.gpuQuery /\ ~t.queryInProgress

\* faulty variant: the result is folded in whatever the disjoint flag says
readbackGpuTimeAlways(gpuTime, isDisjoint, timeElapsed) ==
  (gpuTime * 95 + timeElapsed * 5) \div 100

\* `if (!disjoint) { this.gpuTime = this.gpuTime * 0.95 + (timeElapsed /
\* 1000000) * 0.05 }`, in nanoseconds
readbackGpuTime(gpuTime, isDisjoint, timeElapsed) ==
  IF isDisjoint THEN gpuTime ELSE (gpuTime * 95 + timeElapsed * 5) \div 100

\* beginFrame().  query.error records INVALID_OPERATION: beginQuery while a
\* range is open for the target (the command is then ignored), or endQuery
\* without one; query.lastBegin tells what the last beginFrame did about the
\* timer, query.readback what the endFrame after it did.
BeginFrame ==
  /\ stats.st = "live"
  /\ statsFrames < MaxStatFrames
  /\ statsFrames' = statsFrames + 1
  /\ IF mayBeginQuery(stats)
       THEN \* gl.beginQuery(TIME_ELAPSED_EXT, gpuQuery)
            /\ stats' = [stats EXCEPT !.drawCalls = 0, !.triangles = 0,
                                      !.instances = 0, !.particles = 0,
                                      !.queryInProgress = TRUE]
            /\ query' = IF query.active
                          THEN [query EXCEPT !.error = TRUE,
                                             !.lastBegin = "issued",
                                             !.readback = "none"]
                          ELSE [query EXCEPT !.active = TRUE, !.result = "idle",
                                             !.lastBegin = "issued",
                                             !.readback = "none"]
       ELSE /\ stats' = [stats EXCEPT !.drawCalls = 0, !.triangles = 0,
                                      !.instances = 0, !.particles = 0]
            /\ query' = [query EXCEPT
                           !.lastBegin = IF stats.queryInProgress THEN "open"
                                         ELSE "none",
                           !.readback = "none"]
  /\ UNCHANGED <<disjoint, statsOut>>
  /\ UNCHANGED <<loaderVars, shaderVars, portalVars, bufVars, paramVars>>

\* endFrame(): `available` is the driver's answer to QUERY_RESULT_AVAILABLE
\* for the query just ended, `timeElapsed` its QUERY_RESULT.
EndFrame(available, timeElapsed) ==
  /\ stats.st = "live"
  /\ IF stats.timerExt /\ stats.queryInProgress
       THEN IF stats.gpuQuery /\ available
              THEN \* getParameter(GPU_DISJOINT_EXT) reads and clears the flag
                   /\ disjoint' = FALSE
                   /\ query' = [query EXCEPT
                        !.active = FALSE, !.result = "idle",
                        !.error = @ \/ ~query.active,
                        !.readback = IF disjoint THEN "discarded" ELSE "updated"]
                   /\ stats' = [stats EXCEPT
                        !.queryInProgress = FALSE,
                        !.gpuTime = readbackGpuTime(@, disjoint, timeElapsed)]
              ELSE /\ query' = [query EXCEPT
                        !.active = FALSE, !.result = "pending",
                        !.error = @ \/ ~query.active,
                        !.readback = "unavailable"]
                   /\ stats' = [stats EXCEPT !.queryInProgress = FALSE]
                   /\ UNCHANGED disjoint
       ELSE UNCHANGED <<stats, query, disjoint>>
  /\ UNCHANGED <<statsOut, statsFrames>>
  /\ UNCHANGED <<loaderVars, shaderVars, portalVars, bufVars, paramVars>>

RecordDrawCall(triangleCount, instanceCount) ==
  /\ stats.st = "live"
  /\ stats.drawCalls < MaxDraws
  /\ stats' = [stats EXCEPT
       !.drawCalls = @ + 1,
       !.triangles = @ + triangleCount * instanceCount,
       !.instances = IF instanceCount > 1 THEN @ + instanceCount ELSE @]
  /\ UNCHANGED <<query, disjoint, statsOut, statsFrames>>
  /\ UNCHANGED <<loaderVars, shaderVars, portalVars, bufVars, paramVars>>

RecordParticles(count) ==
  /\ stats.st = "live"
  /\ stats' = [stats EXCEPT !.particles = count]
  /\ UNCHANGED <<query, disjoint, statsOut, statsFrames>>
  /\ UNCHANGED <<loaderVars, shaderVars, portalVars, bufVars, paramVars>>

\* getStats() of a demo: the tracker's own, or one of the two wrappers
GetStats(wrapper) ==
  /\ stats.st = "live"
  /\ statsOut' = CASE wrapper = "particles" -> <<particlesGetStats(stats, 50000)>>
                   [] wrapper = "instances" -> <<instancedGetStats(stats, 1000)>>
                   [] OTHER -> <<getStats(stats)>>
  /\ UNCHANGED <<stats, query, disjoint, statsFrames>>
  /\ UNCHANGED <<loaderVars, shaderVars, portalVars, bufVars, paramVars>>

\* the GPU finishes the ended query: its result becomes available
QueryCompletes ==
  /\ query.result = "pending"
  /\ ~query.active
  /\ query' = [query EXCEPT !.result = "available"]
  /\ UNCHANGED <<stats, disjoint, statsOut, statsFrames>>
  /\ UNCHANGED <<loaderVars, shaderVars, portalVars, bufVars, paramVars>>

\* a GPU reset or power event makes timings unreliable
GpuDisjoint ==
  /\ stats.st = "live"
  /\ stats.timerExt
  /\ ~disjoint
  /\ disjoint' = TRUE
  /\ UNCHANGED <<stats, query, statsOut, statsFrames>>
  /\ UNCHANGED <<loaderVars, shaderVars, portalVars, bufVars, paramVars>>

\* destroy(): gl.deleteQuery(gpuQuery)
StatsDestroy ==
  /\ stats.st = "live"
  /\ stats' = [stats EXCEPT !.st = "destroyed", !.gpuQuery = FALSE]
  /\ query' = IF stats.gpuQuery
                THEN [query EXCEPT !.active = FALSE, !.result = "idle"]
                ELSE query
  /\ UNCHANGED <<disjoint, statsOut, statsFrames>>
  /\ UNCHANGED <<loaderVars, shaderVars, portalVars, bufVars, paramVars>>

NextStats ==
  \/ \E ext \in BOOLEAN, q \in BOOLEAN : StatsConstruct(ext, q)
  \/ BeginFrame
  \/ \E available \in BOOLEAN, t \in TimeElapsedValues : EndFrame(available, t)
  \/ \E n \in {1, 3} : RecordDrawCall(2, n)
  \/ \E count \in {0, 1000} : RecordParticles(count)
  \/ \E w \in {"plain", "particles", "instances"} : GetStats(w)
  \/ QueryCompletes
  \/ GpuDisjoint
  \/ StatsDestroy

SpecStats == Init /\ [][NextStats]_vars

\* C13: a timer query is begun only when no earlier result is outstanding,
\* i.e. the previous query's result has been read back or discarded.
C13_OneQueryInFlight ==
  [][(query'.active /\ ~query.active) => query.result = "idle"]_vars

\* C14: without the timer-query extension every getStats() result, the
\* demos' wrapped ones included, has gpuTime undefined.
C14_GpuTimeAbsent ==
  (stats.st # "none" /\ ~stats.timerExt)
    => \A k \in DOMAIN statsOut : statsOut[k].gpuTime = <<>>

\* stats read through a wrapper after a complete frame, without the extension
C14_Witness ==
  /\ stats.st = "live"
  /\ ~stats.timerExt
  /\ statsFrames >= 1
  /\ stats.drawCalls >= 1
  /\ statsOut # <<>>
  /\ statsOut[1].particles = <<50000>>
  /\ statsOut[1].gpuTime = <<>>

\* C27: a readback at which the disjoint condition is reported (the flag is
\* read, which clears it) leaves gpuTime at its previous value.
C27_DisjointDiscards ==
  [][(disjoint /\ ~disjoint') => stats'.gpuTime = stats.gpuTime]_vars

\* a result was discarded at readback while gpuTime held an earlier result
C27_Witness ==
  /\ query.readback = "discarded"
  /\ stats.gpuTime > 0

\* C30: whatever the sequence of beginFrame and endFrame calls, among them
\* frames that call beginFrame and never endFrame, beginQuery is never issued
\* while a query range is open and endQuery never without an open range; the
\* tracker's flag tells whether the range is open.
C30_QueriesAlternate ==
  /\ ~query.error
  /\ stats.st = "live" => (stats.queryInProgress <=> query.active)

\* a beginFrame found the range of an unfinished frame open, and the endFrame
\* that followed closed it
C30_Witness ==
  /\ query.lastBegin = "open"
  /\ query.readback # "none"
  /\ ~query.active
  /\ statsFrames >= 2

\* ====================================================================
\* Demo parameters: NebulaDemo and PingPongDemo setParameter, reset and
\* getParameters
\* ====================================================================
paletteNames == <<"nebula", "ocean", "fire">>

\* `paletteMap[value] ?? 0`
paletteMap(value) ==
  CASE value = "nebula" -> 0
    [] value = "ocean" -> 1
    [] value = "fire" -> 2
    [] OTHER -> 0

\* faulty variant: a default branch that resets the speed
nebulaSetParameterDefault(n, key, value) ==
  CASE key = "speed" -> [n EXCEPT !.speed = value]
    [] key = "complexity" -> [n EXCEPT !.complexity = value]
    [] key = "mouseInfluence" -> [n EXCEPT !.mouseInfluence = value]
    [] key = "grain" -> [n EXCEPT !.grain = value]
    [] key = "palette" -> [n EXCEPT !.palette = paletteMap(value)]
    [] OTHER -> [n EXCEPT !.speed = 0]

\* NebulaDemo.setParameter(key, value): a switch without a default branch
nebulaSetParameter(n, key, value) ==
  CASE key = "speed" -> [n EXCEPT !.speed = value]
    [] key = "complexity" -> [n EXCEPT !.complexity = value]
    [] key = "mouseInfluence" -> [n EXCEPT !.mouseInfluence = value]
    [] key = "grain" -> [n EXCEPT !.grain = value]
    [] key = "palette" -> [n EXCEPT !.palette = paletteMap(value)]
    [] OTHER -> n

\* NebulaDemo.getParameters()
nebulaGetParameters(n) ==
  [speed |-> n.speed, complexity |-> n.complexity,
   mouseInfluence |-> n.mouseInfluence, grain |-> n.grain,
   palette |-> paletteNames[n.palette + 1]]

NebulaSetParameter(key, value) ==
  /\ nebula' = nebulaSetParameter(nebula, key, value)
  /\ paramCall' = [demo |-> "nebula", op |-> "setParameter", key |-> key,
                   n |-> 1 - paramCall.n]
  /\ UNCHANGED <<loaderVars, shaderVars, portalVars, bufVars, statsVars>>

\* NebulaDemo.reset()
NebulaReset ==
  /\ nebula' = NewNebula
  /\ paramCall' = [demo |-> "nebula", op |-> "reset", key |-> "",
                   n |-> 1 - paramCall.n]
  /\ UNCHANGED <<loaderVars, shaderVars, portalVars, bufVars, statsVars>>

NextParams ==
  \/ \E v \in {100, 200} : NebulaSetParameter("speed", v)
  \/ \E v \in {5, 8} : NebulaSetParameter("complexity", v)
  \/ \E v \in {15, 30} : NebulaSetParameter("mouseInfluence", v)
  \/ \E v \in BOOLEAN : NebulaSetParameter("grain", v)
  \/ \E v \in {"nebula", "ocean", "fire", "sunset"} : NebulaSetParameter("palette", v)
  \/ \E key \in {"noSuchKey", "simulation"}, v \in {0, 7} : NebulaSetParameter(key, v)
  \/ NebulaReset
  \/ \E v \in Simulations : PPSetParameter("simulation", v)
  \/ \E v \in {100, 200} : PPSetParameter("speed", v)
  \/ \E v \in BOOLEAN : PPSetParameter("reset", v)
  \/ \E key \in {"noSuchKey", "complexity"}, v \in {0, 7} : PPSetParameter(key, v)
  \/ PPReset

SpecParams == Init /\ [][NextParams]_vars

\* C16: setParameter with a key the demo does not declare leaves the value of
\* getParameters() and every other field of the instance unchanged.
C16_UnknownKeyIgnored ==
  [][(/\ paramCall' # paramCall
      /\ paramCall'.op = "setParameter"
      /\ \/ /\ paramCall'.demo = "nebula"
            /\ paramCall'.key \notin DOMAIN nebulaGetParameters(nebula)
         \/ /\ paramCall'.demo = "pingPong"
            /\ paramCall'.key \notin DOMAIN ppGetParameters(pp))
       => /\ nebulaGetParameters(nebula') = nebulaGetParameters(nebula)
          /\ ppGetParameters(pp') = ppGetParameters(pp)
          /\ nebula' = nebula
          /\ pp' = pp
          /\ UNCHANGED <<ppSwaps, ppSteps, ppDisplay, gp, gpSwaps, gpStep>>]_vars

\* an undeclared key was passed to an instance whose parameters have been
\* changed from their defaults, and they are still changed
C16_Witness ==
  /\ paramCall.op = "setParameter"
  /\ paramCall.key = "noSuchKey"
  /\ nebula.speed = 200
  /\ pp.simulation = "game-of-life"
====
